---- MODULE Spec2Model ----
(***************************************************************************)
(* A model of discord-message-parser: the tag scanner and classifier of    *)
(* `impl From<&str> for MessagePart` (src/lib.rs), the generated emoji     *)
(* matcher `parse_unicode` (build.rs / derive crate) and the relative-time *)
(* formatter `timestamp_relative` (src/lib.rs).                            *)
(*                                                                         *)
(* Text is modelled as Rust holds it: a sequence of UTF-8 bytes (numbers   *)
(* 0..255).  Offsets are byte offsets, 0-based and half-open as in Rust;   *)
(* TLA+ sequences are 1-based, so s[lo..hi] is SubSeq(s, lo + 1, hi).      *)
(***************************************************************************)
EXTENDS Integers, Sequences, FiniteSets, TLC

VARIABLES
    s,          \* the input text (bytes)
    pc,         \* position of the running function
    pos,        \* find_iter's position in s / char_indices' index
    tag,        \* the regex match of the current loop iteration
    start,      \* `start`: first byte not yet covered by a part
    parts,      \* `parts`: the Vec<MessagePart>
    result,     \* the value returned by MessagePart::from
    tags,       \* history: every match find_iter has yielded, in order
    unmatched,  \* history: the yielded matches no rule accepted
    table,      \* the emoji table the matcher was generated from
    time,       \* timestamp_relative: `time`, seconds since the epoch
    base,       \* timestamp_relative: `base`, seconds since the epoch
    years_diff, \* timestamp_relative: `years_diff`
    months_diff,\* timestamp_relative: `months_diff`
    out         \* timestamp_relative: the returned String

vars == <<s, pc, pos, tag, start, parts, result, tags, unmatched, table,
          time, base, years_diff, months_diff, out>>

----------------------------------------------------------------------------
(* Bytes and strings *)

\* The UTF-8 byte of an ASCII character used by the tag grammar.
Ord(c) ==
    CASE c = "\n" -> 10  [] c = " " -> 32  [] c = "!" -> 33  [] c = "#" -> 35
      [] c = "&" -> 38   [] c = "+" -> 43  [] c = "-" -> 45  [] c = ":" -> 58
      [] c = "<" -> 60   [] c = ">" -> 62  [] c = "@" -> 64
      [] c = "0" -> 48   [] c = "1" -> 49  [] c = "2" -> 50  [] c = "3" -> 51
      [] c = "4" -> 52   [] c = "5" -> 53  [] c = "6" -> 54  [] c = "7" -> 55
      [] c = "8" -> 56   [] c = "9" -> 57
      [] c = "D" -> 68   [] c = "F" -> 70  [] c = "R" -> 82  [] c = "T" -> 84
      [] c = "a" -> 97   [] c = "d" -> 100 [] c = "e" -> 101 [] c = "f" -> 102
      [] c = "h" -> 104  [] c = "l" -> 108 [] c = "n" -> 110 [] c = "o" -> 111
      [] c = "r" -> 114  [] c = "t" -> 116 [] c = "w" -> 119 [] c = "x" -> 120

\* A string literal, written as a tuple of one-character strings, as bytes.
B(cs) == [i \in 1..Len(cs) |-> Ord(cs[i])]

Min(S) == CHOOSE x \in S : \A y \in S : x <= y

\* s[lo..hi] (byte offsets).
Slice(str, lo, hi) == SubSeq(str, lo + 1, hi)

\* str.starts_with(p)
StartsWith(str, p) == Len(p) <= Len(str) /\ SubSeq(str, 1, Len(p)) = p

IsDigit(b) == b >= 48 /\ b <= 57

RECURSIVE StripZeros(_)
StripZeros(d) ==
    IF Len(d) > 1 /\ d[1] = 48 THEN StripZeros(Tail(d)) ELSE d

\* a <= b for two digit strings without leading zeros.
RECURSIVE LexLeq(_, _)
LexLeq(a, b) ==
    IF a = <<>> THEN TRUE
    ELSE IF a[1] # b[1] THEN a[1] < b[1]
    ELSE LexLeq(Tail(a), Tail(b))

DecLeq(a, b) == Len(a) < Len(b) \/ (Len(a) = Len(b) /\ LexLeq(a, b))

\* u64::MAX, i64::MAX and -i64::MIN in decimal.
U64Max == B(<<"1","8","4","4","6","7","4","4","0","7","3","7","0","9","5","5","1","6","1","5">>)
I64Max == B(<<"9","2","2","3","3","7","2","0","3","6","8","5","4","7","7","5","8","0","7">>)
I64MinAbs == B(<<"9","2","2","3","3","7","2","0","3","6","8","5","4","7","7","5","8","0","8">>)
\* The seconds of chrono's last and first representable instants
\* (+262143-12-31T23:59:59 and -262144-01-01T00:00:00).
ChronoMaxSecs == B(<<"8","2","1","0","2","9","8","4","1","2","7","9","9">>)
ChronoMinSecsAbs == B(<<"8","3","3","4","6","3","2","8","5","1","2","0","0">>)

Fail == [ok |-> FALSE]

\* str.parse::<u64>(): an optional '+', then one or more ASCII digits, the
\* value at most u64::MAX.  The value is kept as its canonical decimal digits.
ParseU64(str) ==
    LET d == IF Len(str) > 0 /\ str[1] = 43 THEN Tail(str) ELSE str
    IN  IF d = <<>> \/ \E i \in 1..Len(d) : ~IsDigit(d[i]) THEN Fail
        ELSE IF ~DecLeq(StripZeros(d), U64Max) THEN Fail
        ELSE [ok |-> TRUE, val |-> StripZeros(d)]

\* str.parse::<i64>() of a capture of -?[0-9]+: the value as sign and digits.
ParseI64(str) ==
    LET neg == Len(str) > 0 /\ str[1] = 45
        d == IF Len(str) > 0 /\ (str[1] = 45 \/ str[1] = 43) THEN Tail(str) ELSE str
        m == StripZeros(d)
    IN  IF d = <<>> \/ \E i \in 1..Len(d) : ~IsDigit(d[i]) THEN Fail
        ELSE IF ~DecLeq(m, IF neg THEN I64MinAbs ELSE I64Max) THEN Fail
        ELSE [ok |-> TRUE, val |-> [neg |-> neg /\ m # <<48>>, abs |-> m]]

\* Utc.timestamp(secs, 0) is timestamp_opt(secs, 0).unwrap(): it panics when
\* secs is outside the instants chrono can represent.
TimestampInRange(v) ==
    DecLeq(v.abs, IF v.neg THEN ChronoMinSecsAbs ELSE ChronoMaxSecs)

----------------------------------------------------------------------------
(* 4.1 Tag scanner: ANGLE_BRACKETS = "<.+?>" *)

NoTag == [start |-> -1, end |-> -1]

\* The lazy `.+?>` from index j (1-based) on, one character already taken:
\* the index of the first '>' with no line feed before it, 0 when there is
\* none ('.' is any character but a line feed).
RECURSIVE LazyEnd(_, _)
LazyEnd(str, j) ==
    IF j > Len(str) \/ str[j] = 10 THEN 0
    ELSE IF str[j] = 62 THEN j
    ELSE LazyEnd(str, j + 1)

\* The end of the match that starts at index i (1-based), 0 when none does:
\* '<', then one character that is not a line feed (it may be '<' or '>'),
\* then as few more as reach a '>'.
MatchEnd(str, i) ==
    IF str[i] # 60 \/ i + 1 > Len(str) \/ str[i + 1] = 10 THEN 0
    ELSE LazyEnd(str, i + 2)

\* The next match at or after byte offset `from`: the leftmost start.
RECURSIVE Find(_, _)
Find(str, from) ==
    IF from >= Len(str) THEN NoTag
    ELSE IF MatchEnd(str, from + 1) # 0
    THEN [start |-> from, end |-> MatchEnd(str, from + 1)]
    ELSE Find(str, from + 1)

----------------------------------------------------------------------------
(* 4.2 Tag classifier: the parsers tried on tag.as_str() *)

\* The bytes of one UTF-8 character, from its lead byte.
CharLen(b) == IF b < 128 THEN 1 ELSE IF b < 224 THEN 2 ELSE IF b < 240 THEN 3 ELSE 4

\* m[lo..m.len() - 1].parse::<u64>(), the ID field of a mention.
IdField(m, lo) == ParseU64(Slice(m, lo, Len(m) - 1))

\* UserId::from_str: "<@!ID>" or "<@ID>", else the whole text as a number.
ParseUser(m) ==
    IF Len(m) >= 4 /\ StartsWith(m, B(<<"<","@","!">>)) THEN IdField(m, 3)
    ELSE IF Len(m) >= 4 /\ StartsWith(m, B(<<"<","@">>)) THEN IdField(m, 2)
    ELSE ParseU64(m)

\* ChannelId::from_str: "<#ID>", else the whole text as a number.
ParseChannel(m) ==
    IF Len(m) >= 4 /\ StartsWith(m, B(<<"<","#">>)) THEN IdField(m, 2)
    ELSE ParseU64(m)

\* RoleId::from_str: "<@&ID>", else the whole text as a number.
ParseRole(m) ==
    IF Len(m) >= 4 /\ StartsWith(m, B(<<"<","@","&">>)) THEN IdField(m, 3)
    ELSE ParseU64(m)

\* EmojiIdentifier::from_str: "<:NAME:ID>" or "<a:NAME:ID>", 6 to 56 bytes;
\* NAME runs to the first ':' and ID from there to the first '>'.
ParseEmoji(m) ==
    LET animated == StartsWith(m, B(<<"<","a",":">>))
        st == IF animated THEN 3 ELSE 2
        colons == {i \in (st + 1)..Len(m) : m[i] = 58}
        c == Min(colons)
        closes == {i \in (c + 1)..Len(m) : m[i] = 62}
        id == ParseU64(SubSeq(m, c + 1, Min(closes) - 1))
    IN  IF Len(m) < 6 \/ Len(m) > 56 THEN Fail
        ELSE IF ~(animated \/ StartsWith(m, B(<<"<",":">>))) \/ m[Len(m)] # 62 THEN Fail
        ELSE IF colons = {} \/ closes = {} THEN Fail
        ELSE IF ~id.ok THEN Fail
        ELSE [ok |-> TRUE, val |-> id.val, name |-> SubSeq(m, st + 1, c - 1),
              animated |-> animated]

\* The length of the longest prefix of str matching -?[0-9]* .
RECURSIVE DigitRun(_)
DigitRun(str) == IF str # <<>> /\ IsDigit(str[1]) THEN 1 + DigitRun(Tail(str)) ELSE 0

SecondsLen(str) ==
    IF str # <<>> /\ str[1] = 45 THEN
        (IF DigitRun(Tail(str)) = 0 THEN 0 ELSE 1 + DigitRun(Tail(str)))
    ELSE DigitRun(str)

\* UNSTYLED_TIMESTAMP = "^<t:(-?[0-9]+)>$": captures[1], then .parse().ok().
ParseUnstyled(m) ==
    LET body == Slice(m, 3, Len(m) - 1)
    IN  IF ~StartsWith(m, B(<<"<","t",":">>)) \/ Len(m) < 5 \/ m[Len(m)] # 62 THEN Fail
        ELSE IF SecondsLen(body) = 0 \/ SecondsLen(body) # Len(body) THEN Fail
        ELSE ParseI64(body)

\* impl FromStr for TimestampStyle
ParseStyle(str) ==
    IF str = B(<<"t">>) THEN [ok |-> TRUE, val |-> "ShortTime"]
    ELSE IF str = B(<<"T">>) THEN [ok |-> TRUE, val |-> "LongTime"]
    ELSE IF str = B(<<"d">>) THEN [ok |-> TRUE, val |-> "ShortDate"]
    ELSE IF str = B(<<"D">>) THEN [ok |-> TRUE, val |-> "LongDate"]
    ELSE IF str = B(<<"f">>) THEN [ok |-> TRUE, val |-> "ShortDateTime"]
    ELSE IF str = B(<<"F">>) THEN [ok |-> TRUE, val |-> "LongDateTime"]
    ELSE IF str = B(<<"R">>) THEN [ok |-> TRUE, val |-> "RelativeTime"]
    ELSE Fail

\* STYLED_TIMESTAMP = "^<t:(-?[0-9]+):(.)>$": both captures parsed, the
\* seconds first (captures[1].parse().ok()?, captures[2].parse().ok()?).
ParseStyled(m) ==
    LET body == Slice(m, 3, Len(m) - 1)
        n == SecondsLen(body)
        st == SubSeq(body, n + 2, Len(body))
        secs == ParseI64(SubSeq(body, 1, n))
        style == ParseStyle(st)
    IN  IF ~StartsWith(m, B(<<"<","t",":">>)) \/ Len(m) < 7 \/ m[Len(m)] # 62 THEN Fail
        ELSE IF n = 0 \/ Len(body) < n + 2 \/ body[n + 1] # 58 THEN Fail
        ELSE IF st[1] = 10 \/ CharLen(st[1]) # Len(st) THEN Fail
        ELSE IF ~secs.ok \/ ~style.ok THEN Fail
        ELSE [ok |-> TRUE, val |-> secs.val, style |-> style.val]

----------------------------------------------------------------------------
(* 3. MessagePart.  A part carries, beside the fields of its variant, the  *)
(* byte span [lo, hi) of s it was made from and the text under that span   *)
(* (for PlainText the borrowed &str itself).                               *)

PlainText(str, lo, hi) ==
    [kind |-> "PlainText", lo |-> lo, hi |-> hi, text |-> Slice(str, lo, hi)]

TagPart(kind, str, t) ==
    [kind |-> kind, lo |-> t.start, hi |-> t.end, text |-> Slice(str, t.start, t.end)]

UserMention(str, t, user, nickname_mention) ==
    TagPart("UserMention", str, t)
        @@ [id |-> user, nickname_mention |-> nickname_mention]

ChannelMention(str, t, channel) ==
    TagPart("ChannelMention", str, t) @@ [id |-> channel]

RoleMention(str, t, role) ==
    TagPart("RoleMention", str, t) @@ [id |-> role]

CustomEmoji(str, t, e) ==
    TagPart("CustomEmoji", str, t)
        @@ [id |-> e.val, name |-> e.name, animated |-> e.animated]

Timestamp(str, t, timestamp, style) ==
    TagPart("Timestamp", str, t) @@ [timestamp |-> timestamp, style |-> style]

----------------------------------------------------------------------------
(* Inputs *)

MaxSegs == 3
MaxChars == 5

\* Texts a message is put together from: literal runs, well-formed tags of
\* every grammar, tags whose numeric field is beyond a range limit, unknown
\* tags, stray delimiters and an emoji (U+00A9, bytes C2 A9).  Short texts
\* over Alphabet add every arrangement of delimiters and line feeds.
Segments == <<
    B(<<"h","e","l","l","o"," ">>),
    B(<<" ","w","o","r","l","d">>),
    B(<<"<","@","1","2","3",">">>),
    B(<<"<","@","!","4","2",">">>),
    B(<<"<","#","7",">">>),
    B(<<"<","@","&","9",">">>),
    B(<<"<",":","n",":","5",">">>),
    B(<<"<","a",":","n",":","5",">">>),
    B(<<"<","t",":","0",">">>),
    B(<<"<","t",":","-","3","6","0","0",":","R",">">>),
    B(<<"<","t",":","5",":","x",">">>),
    B(<<"<","x",">">>),
    B(<<"<">>),
    B(<<">">>),
    B(<<"<","@">>) \o SubSeq(U64Max, 1, 19) \o B(<<"6",">">>),
    B(<<"<","t",":">>) \o I64Max \o B(<<">">>),
    B(<<"<","t",":","-">>) \o I64MinAbs \o B(<<":","R",">">>),
    B(<<"<","t",":">>) \o I64MinAbs \o B(<<">">>),
    <<194, 169>>
>>

Alphabet == {60, 62, 64, 49, 10}

RECURSIVE Concat(_)
Concat(q) == IF q = <<>> THEN <<>> ELSE Head(q) \o Concat(Tail(q))

SeqsUpTo(S, n) == UNION {[1..k -> S] : k \in 0..n}

Inputs ==
    {Concat([i \in DOMAIN q |-> Segments[q[i]]]) : q \in SeqsUpTo(DOMAIN Segments, MaxSegs)}
        \cup SeqsUpTo(Alphabet, MaxChars)

\* The emoji table of the build (a sample of twemoji's file names:
\* a9.svg, ae.svg, 1f468.svg, 1f468-200d-1f469.svg).
SampleTable ==
    {<<194, 169>>, <<194, 174>>, <<240, 159, 145, 168>>,
     <<240, 159, 145, 168, 226, 128, 141, 240, 159, 145, 169>>}

NoResult == [kind |-> "None"]

Init ==
    /\ s \in Inputs
    /\ pc = "scan"
    /\ pos = 0
    /\ tag = NoTag
    /\ start = 0
    /\ parts = <<>>
    /\ result = NoResult
    /\ tags = <<>>
    /\ unmatched = <<>>
    /\ table = SampleTable
    /\ time = 0 /\ base = 0 /\ years_diff = 0 /\ months_diff = 0 /\ out = ""

----------------------------------------------------------------------------
(* 4.5 impl From<&str> for MessagePart *)

fromVars == <<s, table, time, base, years_diff, months_diff, out>>

\* tag.as_str()
TagStr == Slice(s, tag.start, tag.end)

\* Mutant: the literal run before a tag loses its first byte.
WithLiteral_OffByOne(ps, st, t) ==
    IF t.start > st THEN Append(ps, PlainText(s, st + 1, t.start)) ELSE ps

\* if tag.start() > start { parts.push(PlainText(&s[start..tag.start()])) }
WithLiteral(ps, st, t) ==
    IF t.start > st THEN Append(ps, PlainText(s, st, t.start)) ELSE ps

\* The body of a rule that succeeded: the literal run, the part, start.
Emit(part) ==
    /\ parts' = Append(WithLiteral(parts, start, tag), part)
    /\ start' = tag.end
    /\ pc' = "scan"
    /\ UNCHANGED <<pos, tag, result, tags, unmatched, fromVars>>

\* Utc.timestamp(...) panicked while the Timestamp part was being built.
Panic ==
    /\ parts' = WithLiteral(parts, start, tag)
    /\ pc' = "panic"
    /\ UNCHANGED <<pos, tag, start, result, tags, unmatched, fromVars>>

\* for tag in ANGLE_BRACKETS.find_iter(s)
NextTag ==
    /\ pc = "scan"
    /\ LET m == Find(s, pos)
       IN  IF m = NoTag
           THEN /\ pc' = "tail"
                /\ UNCHANGED <<pos, tag, tags>>
           ELSE /\ pc' = "classify"
                /\ tag' = m
                /\ pos' = m.end
                /\ tags' = Append(tags, m)
    /\ UNCHANGED <<start, parts, result, unmatched, fromVars>>

\* Mutant: nickname_mention is tested with starts_with("<@"), which holds
\* of both forms of a user mention.
RuleUser_AnyAt ==
    /\ pc = "classify"
    /\ ParseUser(TagStr).ok
    /\ Emit(UserMention(s, tag, ParseUser(TagStr).val,
                        StartsWith(TagStr, B(<<"<","@">>))))

RuleUser ==
    /\ pc = "classify"
    /\ ParseUser(TagStr).ok
    /\ Emit(UserMention(s, tag, ParseUser(TagStr).val,
                        StartsWith(TagStr, B(<<"<","@","!">>))))

RuleChannel ==
    /\ pc = "classify"
    /\ ~ParseUser(TagStr).ok
    /\ ParseChannel(TagStr).ok
    /\ Emit(ChannelMention(s, tag, ParseChannel(TagStr).val))

RuleRole ==
    /\ pc = "classify"
    /\ ~ParseUser(TagStr).ok /\ ~ParseChannel(TagStr).ok
    /\ ParseRole(TagStr).ok
    /\ Emit(RoleMention(s, tag, ParseRole(TagStr).val))

RuleEmoji ==
    /\ pc = "classify"
    /\ ~ParseUser(TagStr).ok /\ ~ParseChannel(TagStr).ok /\ ~ParseRole(TagStr).ok
    /\ ParseEmoji(TagStr).ok
    /\ Emit(CustomEmoji(s, tag, ParseEmoji(TagStr)))

NoMention ==
    /\ ~ParseUser(TagStr).ok /\ ~ParseChannel(TagStr).ok
    /\ ~ParseRole(TagStr).ok /\ ~ParseEmoji(TagStr).ok

RuleUnstyled ==
    /\ pc = "classify"
    /\ NoMention
    /\ ParseUnstyled(TagStr).ok
    /\ IF TimestampInRange(ParseUnstyled(TagStr).val)
       THEN Emit(Timestamp(s, tag, ParseUnstyled(TagStr).val, "None"))
       ELSE Panic

RuleStyled ==
    /\ pc = "classify"
    /\ NoMention
    /\ ~ParseUnstyled(TagStr).ok
    /\ ParseStyled(TagStr).ok
    /\ IF TimestampInRange(ParseStyled(TagStr).val)
       THEN Emit(Timestamp(s, tag, ParseStyled(TagStr).val, ParseStyled(TagStr).style))
       ELSE Panic

\* Mutant: a tag no rule accepted is pushed as a PlainText part of its own.
NoRule_OwnPart ==
    /\ pc = "classify"
    /\ NoMention
    /\ ~ParseUnstyled(TagStr).ok /\ ~ParseStyled(TagStr).ok
    /\ pc' = "scan"
    /\ unmatched' = Append(unmatched, tag)
    /\ parts' = Append(IF tag.start > start
                       THEN Append(parts, PlainText(s, start, tag.start))
                       ELSE parts,
                       PlainText(s, tag.start, tag.end))
    /\ start' = tag.end
    /\ UNCHANGED <<pos, tag, result, tags, fromVars>>

\* No rule accepted the tag: the loop body does nothing.
NoRule ==
    /\ pc = "classify"
    /\ NoMention
    /\ ~ParseUnstyled(TagStr).ok /\ ~ParseStyled(TagStr).ok
    /\ pc' = "scan"
    /\ unmatched' = Append(unmatched, tag)
    /\ UNCHANGED <<pos, tag, start, parts, result, tags, fromVars>>

\* if s.len() > start { parts.push(PlainText(&s[start..])) }
Tail_ ==
    /\ pc = "tail"
    /\ parts' = IF Len(s) > start THEN Append(parts, PlainText(s, start, Len(s))) ELSE parts
    /\ pc' = "fold"
    /\ UNCHANGED <<pos, tag, start, result, tags, unmatched, fromVars>>

\* Mutant: a single part is wrapped in Nested.
Fold_NoSingle(ps) ==
    IF Len(ps) = 0 THEN [kind |-> "Empty"] ELSE [kind |-> "Nested", parts |-> ps]

\* match parts.len() { 0 => Empty, 1 => parts.remove(0), _ => Nested(parts) }
Fold(ps) ==
    IF Len(ps) = 0 THEN [kind |-> "Empty"]
    ELSE IF Len(ps) = 1 THEN ps[1]
    ELSE [kind |-> "Nested", parts |-> ps]

Collapse ==
    /\ pc = "fold"
    /\ result' = Fold(parts)
    /\ pc' = "done"
    /\ UNCHANGED <<pos, tag, start, parts, tags, unmatched, fromVars>>

Next ==
    \/ NextTag
    \/ RuleUser
    \/ RuleChannel
    \/ RuleRole
    \/ RuleEmoji
    \/ RuleUnstyled
    \/ RuleStyled
    \/ NoRule
    \/ Tail_
    \/ Collapse

Spec == Init /\ [][Next]_vars

----------------------------------------------------------------------------
(* Properties of MessagePart::from *)

\* The flat list of parts of the returned value.
ResultParts ==
    IF result.kind = "Nested" THEN result.parts
    ELSE IF result.kind = "Empty" THEN <<>>
    ELSE <<result>>

Texts(ps) == [i \in DOMAIN ps |-> ps[i].text]

\* C1: when from returns, its parts in order occupy consecutive byte spans
\* of s from byte 0 to len(s), each part's text is the slice of s under its
\* span, and the texts concatenated are s.
C1_Coverage ==
    pc = "done" =>
        LET ps == ResultParts
        IN  /\ Concat(Texts(ps)) = s
            /\ \A i \in DOMAIN ps :
                /\ ps[i].lo = (IF i = 1 THEN 0 ELSE ps[i - 1].hi)
                /\ ps[i].lo < ps[i].hi
                /\ ps[i].text = Slice(s, ps[i].lo, ps[i].hi)
            /\ IF ps = <<>> THEN Len(s) = 0 ELSE ps[Len(ps)].hi = Len(s)

\* A result with literal text before, between and after recognised tags.
C1_Witness ==
    /\ pc = "done"
    /\ Len(ResultParts) = 3
    /\ ResultParts[1].kind = "PlainText"
    /\ ResultParts[2].kind = "Timestamp"
    /\ ResultParts[3].kind = "PlainText"

\* m opens with prefix, closes with '>' and holds a field between them.
Closed(m, prefix) ==
    StartsWith(m, prefix) /\ Len(m) >= Len(prefix) + 2 /\ m[Len(m)] = 62

Field(m, prefix) == Slice(m, Len(prefix), Len(m) - 1)

StyleCodes == {B(<<"t">>), B(<<"T">>), B(<<"d">>), B(<<"D">>), B(<<"f">>), B(<<"F">>), B(<<"R">>)}

\* A tag of a numeric grammar whose number is out of range: an ID of digits
\* beyond u64, or seconds beyond what an instant can hold.
IdOutOfRange(m, prefix) ==
    /\ Closed(m, prefix)
    /\ \A k \in DOMAIN Field(m, prefix) : IsDigit(Field(m, prefix)[k])
    /\ ~ParseU64(Field(m, prefix)).ok

SecondsOutOfRange(d) ==
    /\ d # <<>>
    /\ \A k \in DOMAIN d : IsDigit(d[k]) \/ (k = 1 /\ d[k] = 45 /\ Len(d) > 1)
    /\ ~ParseI64(d).ok \/ ~TimestampInRange(ParseI64(d).val)

OutOfRangeTag(m) ==
    \/ \E prefix \in {B(<<"<","@">>), B(<<"<","@","!">>), B(<<"<","#">>), B(<<"<","@","&">>)} :
        IdOutOfRange(m, prefix)
    \/ Closed(m, B(<<"<","t",":">>)) /\ SecondsOutOfRange(Field(m, B(<<"<","t",":">>)))
    \/ /\ Closed(m, B(<<"<","t",":">>))
       /\ Len(m) >= 7
       /\ m[Len(m) - 2] = 58
       /\ <<m[Len(m) - 1]>> \in StyleCodes
       /\ SecondsOutOfRange(Slice(m, 3, Len(m) - 3))

\* C2: from never panics, and when it returns, every scanned tag whose
\* numeric field is out of range lies inside a PlainText part.
C2_NeverPanics ==
    /\ pc # "panic"
    /\ pc = "done" =>
        \A i \in DOMAIN tags :
            OutOfRangeTag(Slice(s, tags[i].start, tags[i].end)) =>
                \E k \in DOMAIN ResultParts :
                    /\ ResultParts[k].kind = "PlainText"
                    /\ ResultParts[k].lo <= tags[i].start
                    /\ tags[i].end <= ResultParts[k].hi

\* C3 (as claimed): every scanned span no rule accepted is exactly one
\* PlainText part of its own, from its '<' to its '>'.
C3_OwnPart ==
    pc = "done" =>
        \A i \in DOMAIN unmatched :
            Cardinality({k \in DOMAIN ResultParts :
                /\ ResultParts[k].kind = "PlainText"
                /\ ResultParts[k].lo = unmatched[i].start
                /\ ResultParts[k].hi = unmatched[i].end}) = 1

\* The parts whose span shares a byte with the span u.
Overlapping(ps, u) == {k \in DOMAIN ps : ps[k].lo < u.end /\ u.start < ps[k].hi}

\* C3 (amended): every scanned span no rule accepted lies whole inside exactly
\* one part, a PlainText, and that part is the whole literal run around it:
\* it reaches back to the preceding recognised tag (or the start of s) and
\* forward to the next recognised tag (or the end of s).
C3_InOneLiteralRun ==
    pc = "done" =>
        LET ps == ResultParts
        IN  \A i \in DOMAIN unmatched :
                /\ Cardinality(Overlapping(ps, unmatched[i])) = 1
                /\ \A k \in Overlapping(ps, unmatched[i]) :
                    /\ ps[k].kind = "PlainText"
                    /\ ps[k].lo <= unmatched[i].start
                    /\ unmatched[i].end <= ps[k].hi
                    /\ ps[k].text = Slice(s, ps[k].lo, ps[k].hi)
                    /\ (k = 1 /\ ps[k].lo = 0)
                        \/ (k > 1 /\ ps[k - 1].kind # "PlainText" /\ ps[k - 1].hi = ps[k].lo)
                    /\ (k = Len(ps) /\ ps[k].hi = Len(s))
                        \/ (k < Len(ps) /\ ps[k + 1].kind # "PlainText" /\ ps[k + 1].lo = ps[k].hi)

\* After a recognised tag, an unaccepted span joined with the text after it.
C3_Witness ==
    /\ pc = "done"
    /\ \E i \in DOMAIN unmatched : \E k \in DOMAIN ResultParts :
        /\ k > 1
        /\ ResultParts[k].kind = "PlainText"
        /\ ResultParts[k].lo = unmatched[i].start
        /\ unmatched[i].end < ResultParts[k].hi

\* C6: the result is Empty exactly when no part was produced, which is
\* exactly when s is empty; one part is returned bare; Nested holds the
\* parts and has two or more of them.
C6_Collapse ==
    pc = "done" =>
        /\ (result.kind = "Empty") = (Len(parts) = 0)
        /\ (Len(parts) = 0) = (s = <<>>)
        /\ Len(parts) = 1 => (result = parts[1] /\ result.kind \notin {"Nested", "Empty"})
        /\ (result.kind = "Nested") = (Len(parts) >= 2)
        /\ result.kind = "Nested" => (result.parts = parts /\ Len(result.parts) >= 2)

\* A single recognised tag, returned bare.
C6_Witness ==
    /\ pc = "done"
    /\ Len(parts) = 1
    /\ result.kind = "UserMention"

\* C7 (as claimed): the spans in the "<[^>]+>" reading of the scanner.
IsClaimedTagAt(str, i, j) ==
    /\ str[i] = 60
    /\ j >= i + 2
    /\ str[j] = 62
    /\ \A k \in (i + 1)..(j - 1) : str[k] # 62

ClaimedFind(str, from) ==
    LET ends(i) == {j \in (i + 2)..Len(str) : IsClaimedTagAt(str, i, j)}
        cands == {i \in (from + 1)..Len(str) : str[i] = 60 /\ ends(i) # {}}
    IN  IF cands = {} THEN NoTag
        ELSE [start |-> Min(cands) - 1, end |-> Min(ends(Min(cands)))]

RECURSIVE ClaimedTags(_, _)
ClaimedTags(str, from) ==
    IF ClaimedFind(str, from) = NoTag THEN <<>>
    ELSE <<ClaimedFind(str, from)>> \o ClaimedTags(str, ClaimedFind(str, from).end)

\* C7: no span the scanner yields holds a '>' before its last byte, and
\* when from returns, the spans it was given are exactly the leftmost,
\* non-overlapping substrings '<', one or more non-'>' characters, '>' of s
\* (line feeds between the brackets included).
C7_ScannerAsClaimed ==
    /\ \A i \in DOMAIN tags :
        \A k \in (tags[i].start + 2)..(tags[i].end - 1) : s[k] # 62
    /\ pc = "done" => tags = ClaimedTags(s, 0)

\* C8: the tag grammars of the claim, tried in the claim's order.
IsIdTag(m, prefix) == Closed(m, prefix) /\ ParseU64(Field(m, prefix)).ok

IsEmojiTag(m, prefix) ==
    /\ Closed(m, prefix)
    /\ \E c \in 2..(Len(Field(m, prefix)) - 1) :
        /\ Field(m, prefix)[c] = 58
        /\ \A k \in 1..(c - 1) : Field(m, prefix)[k] # 58
        /\ ParseU64(SubSeq(Field(m, prefix), c + 1, Len(Field(m, prefix)))).ok

IsSeconds(d) ==
    /\ d # <<>>
    /\ \A k \in DOMAIN d : IsDigit(d[k]) \/ (k = 1 /\ d[k] = 45 /\ Len(d) > 1)
    /\ ParseI64(d).ok

IsStyledTag(m) ==
    /\ Closed(m, B(<<"<","t",":">>))
    /\ Len(m) >= 7
    /\ m[Len(m) - 2] = 58
    /\ <<m[Len(m) - 1]>> \in StyleCodes
    /\ IsSeconds(Slice(m, 3, Len(m) - 3))

ClaimedKind(m) ==
    IF IsIdTag(m, B(<<"<","@">>)) \/ IsIdTag(m, B(<<"<","@","!">>)) THEN "UserMention"
    ELSE IF IsIdTag(m, B(<<"<","#">>)) THEN "ChannelMention"
    ELSE IF IsIdTag(m, B(<<"<","@","&">>)) THEN "RoleMention"
    ELSE IF IsEmojiTag(m, B(<<"<",":">>)) \/ IsEmojiTag(m, B(<<"<","a",":">>)) THEN "CustomEmoji"
    ELSE IF Closed(m, B(<<"<","t",":">>)) /\ IsSeconds(Field(m, B(<<"<","t",":">>))) THEN "Timestamp"
    ELSE IF IsStyledTag(m) THEN "Timestamp"
    ELSE "none"

Hello123World == B(<<"h","e","l","l","o"," ","<","@","1","2","3",">"," ","w","o","r","l","d">>)

\* C8: when from returns, every scanned span the claim's grammars accept (the
\* first in the claim's order deciding the kind) is one part of that kind over
\* exactly that span, every other scanned span is part of no tag-derived part,
\* a UserMention is a nickname mention exactly when its tag begins "<@!", an
\* unstyled timestamp has no style, the literal text before a tag is the
\* PlainText part before it, and "hello <@123> world" gives
\* Nested[PlainText("hello "), UserMention{123, false}, PlainText(" world")].
C8_RuleOrder ==
    pc = "done" =>
        LET ps == ResultParts
            tagParts == {k \in DOMAIN ps : ps[k].kind # "PlainText"}
        IN  /\ \A i \in DOMAIN tags :
                LET m == Slice(s, tags[i].start, tags[i].end)
                    mine == {k \in tagParts :
                                ps[k].lo = tags[i].start /\ ps[k].hi = tags[i].end}
                IN  IF ClaimedKind(m) = "none"
                    THEN Overlapping(ps, tags[i]) \cap tagParts = {}
                    ELSE /\ Cardinality(mine) = 1
                         /\ \A k \in mine :
                            /\ ps[k].kind = ClaimedKind(m)
                            /\ ps[k].kind = "UserMention" =>
                                ps[k].nickname_mention = StartsWith(m, B(<<"<","@","!">>))
                            /\ ps[k].kind = "Timestamp" =>
                                (ps[k].style = "None") = ~IsStyledTag(m)
            /\ \A k \in tagParts :
                /\ \E i \in DOMAIN tags : ps[k].lo = tags[i].start /\ ps[k].hi = tags[i].end
                /\ k > 1 => ps[k - 1].hi = ps[k].lo
                /\ k = 1 => ps[k].lo = 0
            /\ s = Hello123World =>
                /\ result.kind = "Nested"
                /\ Len(ps) = 3
                /\ ps[1].kind = "PlainText" /\ ps[1].text = B(<<"h","e","l","l","o"," ">>)
                /\ ps[2].kind = "UserMention" /\ ps[2].id = B(<<"1","2","3">>)
                /\ ps[2].nickname_mention = FALSE
                /\ ps[3].kind = "PlainText" /\ ps[3].text = B(<<" ","w","o","r","l","d">>)

\* The claim's own example, parsed.
C8_Witness ==
    /\ pc = "done"
    /\ s = Hello123World
    /\ Len(ResultParts) = 3

\* C10: a message that is two adjacent table sequences and nothing else is
\* returned as Nested of exactly two UnicodeEmoji parts, one per sequence.
C10_AdjacentEmoji ==
    pc = "done" =>
        \A e1 \in table, e2 \in table :
            s = e1 \o e2 =>
                /\ result.kind = "Nested"
                /\ Len(result.parts) = 2
                /\ result.parts[1].kind = "UnicodeEmoji" /\ result.parts[1].text = e1
                /\ result.parts[2].kind = "UnicodeEmoji" /\ result.parts[2].text = e2

----------------------------------------------------------------------------
(* 4.3 Emoji matcher: the code generator (build.rs, derive crate) and the  *)
(* parse_unicode it writes.                                                *)

MaxUnits == 4

\* a < b as Rust orders String: byte by byte, a proper prefix first.
RECURSIVE StrLess(_, _)
StrLess(a, b) ==
    IF b = <<>> THEN FALSE
    ELSE IF a = <<>> THEN TRUE
    ELSE IF a[1] # b[1] THEN a[1] < b[1]
    ELSE StrLess(Tail(a), Tail(b))

\* Iteration of the BTreeSet<String>: ascending.
RECURSIVE Ascending(_)
Ascending(set) ==
    IF set = {} THEN <<>>
    ELSE LET least == CHOOSE e \in set : \A f \in set \ {e} : StrLess(e, f)
         IN  <<least>> \o Ascending(set \ {least})

Reverse(q) == [i \in DOMAIN q |-> q[Len(q) + 1 - i]]

\* Mutant: the table is walked in ascending order (no .rev()).
EmojiOrder_NoRev(set) == Ascending(set)

\* emoji.into_iter().rev()
EmojiOrder(set) == Reverse(Ascending(set))

\* emoji.chars().next(): the first character, as its bytes.
FirstChar(e) == SubSeq(e, 1, CharLen(e[1]))

\* into_group_map_by(first char): the group of c, in the order walked.
Group(set, c) == SelectSeq(EmojiOrder(set), LAMBDA e : FirstChar(e) = c)

\* The match arm of c: the checks `if s[index..].starts_with(emoji)` in
\* order; the first that holds pushes and continues.  <<>> when none holds
\* (or no arm is generated for c).
RECURSIVE FirstCheck(_, _)
FirstCheck(group, rest) ==
    IF group = <<>> THEN <<>>
    ELSE IF StartsWith(rest, Head(group)) THEN Head(group)
    ELSE FirstCheck(Tail(group), rest)

ArmMatch(set, str, index) ==
    FirstCheck(Group(set, SubSeq(str, index + 1, index + CharLen(str[index + 1]))),
               Slice(str, index, Len(str)))

UnicodeEmoji(e, lo) ==
    [kind |-> "UnicodeEmoji", lo |-> lo, hi |-> lo + Len(e), text |-> e]

\* U+00A9, U+00AE, U+FE0F and 'x'.
CodePoints == {<<194, 169>>, <<194, 174>>, <<239, 184, 143>>, <<120>>}

\* Sequences a table may hold: chains of proper prefixes with one first
\* character, and sequences with the same first character that diverge.
EmojiUniverse ==
    {<<194, 169>>,
     <<194, 169, 239, 184, 143>>,
     <<194, 169, 239, 184, 143, 194, 174>>,
     <<194, 169, 194, 174>>,
     <<194, 174>>,
     <<194, 174, 194, 169>>}

EmojiTexts == {Concat(q) : q \in SeqsUpTo(CodePoints, MaxUnits)}

InitEmoji ==
    /\ table \in SUBSET EmojiUniverse
    /\ s \in EmojiTexts
    /\ pc = "loop"
    /\ pos = 0
    /\ start = 0
    /\ parts = <<>>
    /\ tag = NoTag
    /\ result = NoResult
    /\ tags = <<>>
    /\ unmatched = <<>>
    /\ time = 0 /\ base = 0 /\ years_diff = 0 /\ months_diff = 0 /\ out = ""

emojiVars == <<s, table, tag, result, tags, unmatched,
               time, base, years_diff, months_diff, out>>

\* char_indices(): the index of the character after the one at pos.
NextIndex == pos + CharLen(s[pos + 1])

\* if index >= start fails: the character is part of an emoji already pushed.
SkipConsumed ==
    /\ pc = "loop"
    /\ pos < Len(s)
    /\ pos < start
    /\ pos' = NextIndex
    /\ UNCHANGED <<pc, start, parts, emojiVars>>

\* A check of the character's arm holds.
EmojiArm ==
    /\ pc = "loop"
    /\ pos < Len(s)
    /\ pos >= start
    /\ ArmMatch(table, s, pos) # <<>>
    /\ parts' = Append(IF pos > start THEN Append(parts, PlainText(s, start, pos)) ELSE parts,
                       UnicodeEmoji(ArmMatch(table, s, pos), pos))
    /\ start' = pos + Len(ArmMatch(table, s, pos))
    /\ pos' = NextIndex
    /\ UNCHANGED <<pc, emojiVars>>

\* No arm for the character, or no check of its arm holds.
NoEmoji ==
    /\ pc = "loop"
    /\ pos < Len(s)
    /\ pos >= start
    /\ ArmMatch(table, s, pos) = <<>>
    /\ pos' = NextIndex
    /\ UNCHANGED <<pc, start, parts, emojiVars>>

\* if s.len() > start { parts.push(PlainText(&s[start..])) }
Flush ==
    /\ pc = "loop"
    /\ pos >= Len(s)
    /\ parts' = IF Len(s) > start THEN Append(parts, PlainText(s, start, Len(s))) ELSE parts
    /\ pc' = "returned"
    /\ UNCHANGED <<pos, start, emojiVars>>

NextEmoji ==
    \/ SkipConsumed
    \/ EmojiArm
    \/ NoEmoji
    \/ Flush

SpecEmoji == InitEmoji /\ [][NextEmoji]_vars

\* The table sequences that are a prefix of str[index..].
MatchesAt(set, str, index) == {e \in set : StartsWith(Slice(str, index, Len(str)), e)}

\* The character boundaries of str.
RECURSIVE Boundaries(_, _)
Boundaries(str, index) ==
    IF index >= Len(str) THEN {}
    ELSE {index} \cup Boundaries(str, index + CharLen(str[index + 1]))

\* C9: every UnicodeEmoji pushed is the longest table sequence that is a
\* prefix of the text at its position, and when parse_unicode returns, every
\* position it examined (a character boundary not inside an emoji pushed
\* earlier) at which some table sequence matches begins such a part.
C9_LongestMatch ==
    /\ \A k \in DOMAIN parts :
        parts[k].kind = "UnicodeEmoji" =>
            /\ parts[k].text \in MatchesAt(table, s, parts[k].lo)
            /\ \A e \in MatchesAt(table, s, parts[k].lo) : Len(e) <= Len(parts[k].text)
    /\ pc = "returned" =>
        \A i \in Boundaries(s, 0) :
            (/\ MatchesAt(table, s, i) # {}
             /\ \A k \in DOMAIN parts :
                    parts[k].kind = "UnicodeEmoji" => ~(parts[k].lo < i /\ i < parts[k].hi))
            => \E k \in DOMAIN parts :
                    /\ parts[k].kind = "UnicodeEmoji"
                    /\ parts[k].lo = i
                    /\ \A e \in MatchesAt(table, s, i) : Len(e) <= Len(parts[k].text)

\* Three table sequences, each a proper prefix of the next, all match at one
\* position, and the longest was pushed.
C9_Witness ==
    /\ pc = "returned"
    /\ \E k \in DOMAIN parts :
        /\ parts[k].kind = "UnicodeEmoji"
        /\ Cardinality(MatchesAt(table, s, parts[k].lo)) = 3
        /\ \A e \in MatchesAt(table, s, parts[k].lo) : Len(e) <= Len(parts[k].text)

----------------------------------------------------------------------------
(* 4.4 Relative time formatter: timestamp_relative(time, base), both       *)
(* DateTime<Utc>, modelled as whole seconds since the epoch.               *)

MaxCount == 2

\* The proleptic Gregorian date of a day number (days since 1970-01-01),
\* as chrono's year(), month() and day() report it.
Civil(days) ==
    LET z == days + 719468
        era == z \div 146097
        doe == z - era * 146097
        yoe == (doe - doe \div 1460 + doe \div 36524 - doe \div 146096) \div 365
        doy == doe - (365 * yoe + yoe \div 4 - yoe \div 100)
        mp == (5 * doy + 2) \div 153
        m == IF mp < 10 THEN mp + 3 ELSE mp - 9
    IN  [year |-> yoe + era * 400 + (IF m <= 2 THEN 1 ELSE 0),
         month |-> m,
         day |-> doy - (153 * mp + 2) \div 5 + 1]

Year(t) == Civil(t \div 86400).year
Month(t) == Civil(t \div 86400).month
Day(t) == Civil(t \div 86400).day
\* time(): the time of day, here its second of the day.
TimeOfDay(t) == t % 86400

\* Rust's integer division: truncated toward zero.
TruncDiv(a, b) == IF a >= 0 THEN a \div b ELSE -((-a) \div b)

\* Duration::num_seconds(), num_minutes(), num_hours(), num_days(), num_weeks()
NumSeconds(delta) == delta
NumMinutes(delta) == TruncDiv(NumSeconds(delta), 60)
NumHours(delta) == TruncDiv(NumSeconds(delta), 3600)
NumDays(delta) == TruncDiv(NumSeconds(delta), 86400)
NumWeeks(delta) == TruncDiv(NumDays(delta), 7)

\* A variant of the arms whose singular arms are missing, so that a count of
\* one takes the plural arms.
Arms_NoSingular(n, unit) ==
    IF n >= 1 THEN "in " \o ToString(n) \o " " \o unit \o "s"
    ELSE IF n = 0 THEN ""
    ELSE ToString(-n) \o " " \o unit \o "s ago"

\* The five arms of each match: "in {} Us", "in 1 U", fall through,
\* "1 U ago", "{} Us ago".  "" stands for falling through.
Arms(n, unit) ==
    IF n >= 2 THEN "in " \o ToString(n) \o " " \o unit \o "s"
    ELSE IF n = 1 THEN "in 1 " \o unit
    ELSE IF n = 0 THEN ""
    ELSE IF n = -1 THEN "1 " \o unit \o " ago"
    ELSE ToString(-n) \o " " \o unit \o "s ago"

\* Lines 50-52: the year difference, pulled one toward zero when the
\* month/day/time of `time` has not reached that of `base`.
YearsDiff(t, b) ==
    LET raw == Year(t) - Year(b)
        behind == \/ Month(t) < Month(b)
                  \/ Month(t) = Month(b)
                     /\ (Day(t) < Day(b) \/ (Day(t) = Day(b) /\ TimeOfDay(t) < TimeOfDay(b)))
        ahead == \/ Month(t) > Month(b)
                 \/ Month(t) = Month(b)
                    /\ (Day(t) > Day(b) \/ (Day(t) = Day(b) /\ TimeOfDay(t) > TimeOfDay(b)))
    IN  IF raw > 0 /\ behind THEN raw - 1
        ELSE IF raw < 0 /\ ahead THEN raw + 1
        ELSE raw

\* Lines 60-63: the month difference within the year, pulled one toward
\* zero by the day/time test, and only then 12 per calendar year added.
MonthsDiff(t, b) ==
    LET raw == Month(t) - Month(b)
        behind == Day(t) < Day(b) \/ (Day(t) = Day(b) /\ TimeOfDay(t) < TimeOfDay(b))
        ahead == Day(t) > Day(b) \/ (Day(t) = Day(b) /\ TimeOfDay(t) > TimeOfDay(b))
        adj == IF raw > 0 /\ behind THEN raw - 1
               ELSE IF raw < 0 /\ ahead THEN raw + 1
               ELSE raw
    IN  adj + 12 * (Year(t) - Year(b))

\* Instants `base` is drawn from: the epoch, a mid-month noon, the last
\* second of a year, a leap day and the end of a 31-day month.
Bases == {0, 3931200, 31535999, 68169600, 7711200}

\* Lengths of a second, minute, hour, day, week, 30 days and 365 days.
UnitLengths == {1, 60, 3600, 86400, 604800, 2592000, 31536000}

Deltas == {k * u + e : k \in (-MaxCount)..MaxCount, u \in UnitLengths, e \in {-1, 0, 1}}

InitTime ==
    /\ base \in Bases
    /\ time \in {base + d : d \in Deltas}
    /\ pc = "years"
    /\ years_diff = 0
    /\ months_diff = 0
    /\ out = ""
    /\ s = <<>> /\ pos = 0 /\ tag = NoTag /\ start = 0 /\ parts = <<>>
    /\ result = NoResult /\ tags = <<>> /\ unmatched = <<>> /\ table = {}

timeVars == <<s, pos, tag, start, parts, result, tags, unmatched, table, time, base>>

\* A match whose arm for n returns, or falls through to the next match.
Step(n, unit, then) ==
    IF Arms(n, unit) # ""
    THEN out' = Arms(n, unit) /\ pc' = "returned"
    ELSE out' = out /\ pc' = then

MatchYears ==
    /\ pc = "years"
    /\ years_diff' = YearsDiff(time, base)
    /\ Step(YearsDiff(time, base), "year", "months")
    /\ UNCHANGED <<months_diff, timeVars>>

MatchMonths ==
    /\ pc = "months"
    /\ months_diff' = MonthsDiff(time, base)
    /\ Step(MonthsDiff(time, base), "month", "weeks")
    /\ UNCHANGED <<years_diff, timeVars>>

MatchWeeks ==
    /\ pc = "weeks"
    /\ Step(NumWeeks(time - base), "week", "days")
    /\ UNCHANGED <<years_diff, months_diff, timeVars>>

MatchDays ==
    /\ pc = "days"
    /\ Step(NumDays(time - base), "day", "hours")
    /\ UNCHANGED <<years_diff, months_diff, timeVars>>

MatchHours ==
    /\ pc = "hours"
    /\ Step(NumHours(time - base), "hour", "minutes")
    /\ UNCHANGED <<years_diff, months_diff, timeVars>>

MatchMinutes ==
    /\ pc = "minutes"
    /\ Step(NumMinutes(time - base), "minute", "seconds")
    /\ UNCHANGED <<years_diff, months_diff, timeVars>>

\* The last match returns on every arm; its arm for 0 is "now".
MatchSeconds ==
    /\ pc = "seconds"
    /\ out' = (IF NumSeconds(time - base) = 0 THEN "now"
               ELSE Arms(NumSeconds(time - base), "second"))
    /\ pc' = "returned"
    /\ UNCHANGED <<years_diff, months_diff, timeVars>>

NextTime ==
    \/ MatchYears
    \/ MatchMonths
    \/ MatchWeeks
    \/ MatchDays
    \/ MatchHours
    \/ MatchMinutes
    \/ MatchSeconds

SpecTime == InitTime /\ [][NextTime]_vars

\* C4: whenever `time` is exactly 3600 seconds before `base`, the formatter
\* returns "1 hour ago".
C4_OneHourAgo ==
    (pc = "returned" /\ base - time = 3600) => out = "1 hour ago"

\* Whole calendar months from b to t, counted toward zero: the months between
\* the two calendar months, less one when the day and time of day of the
\* later instant have not reached those of the earlier one.
MonthIndex(t) == Year(t) * 12 + Month(t)

DayTime(t) == Day(t) * 86400 + TimeOfDay(t)

CalendarMonths(t, b) ==
    IF t >= b
    THEN MonthIndex(t) - MonthIndex(b) - (IF DayTime(t) < DayTime(b) THEN 1 ELSE 0)
    ELSE -(MonthIndex(b) - MonthIndex(t) - (IF DayTime(b) < DayTime(t) THEN 1 ELSE 0))

CalendarYears(t, b) == TruncDiv(CalendarMonths(t, b), 12)

\* C5: the answer is in years exactly when a whole calendar year or more
\* separates the instants, N being the whole calendar years; it is in months
\* exactly when less than a calendar year and a whole calendar month or more
\* separates them, N being the whole calendar months (1..11); otherwise it
\* is in neither unit.
C5_CalendarDifference ==
    pc = "returned" =>
        IF CalendarYears(time, base) # 0
        THEN out = Arms(CalendarYears(time, base), "year")
        ELSE IF CalendarMonths(time, base) # 0
        THEN out = Arms(CalendarMonths(time, base), "month")
        ELSE \A n \in -24..24 :
                n # 0 => out \notin {Arms(n, "year"), Arms(n, "month")}

\* The unit words of the formatter, and the texts of an answer N units after
\* and N units before the base: the unit word is singular exactly when N = 1.
UnitWords == {"year", "month", "week", "day", "hour", "minute", "second"}

UnitWord(n, unit) == IF n = 1 THEN unit ELSE unit \o "s"

FutureText(n, unit) == "in " \o ToString(n) \o " " \o UnitWord(n, unit)

PastText(n, unit) == ToString(n) \o " " \o UnitWord(n, unit) \o " ago"

FutureTexts == {FutureText(n, u) : n \in 1..60, u \in UnitWords}

PastTexts == {PastText(n, u) : n \in 1..60, u \in UnitWords}

\* C11: the answer has the sign of time - base: it is "in N unit(s)" when
\* `time` is after `base`, "N unit(s) ago" when it is before, and "now"
\* exactly when the two are equal; N is positive and the unit word is
\* singular exactly when N = 1.
C11_Sign ==
    pc = "returned" =>
        /\ time > base => out \in FutureTexts
        /\ time < base => out \in PastTexts
        /\ (out = "now") <=> (time = base)

\* Answers of each sign, singular and plural, and "now" have been returned.
C11_Witness ==
    /\ pc = "returned"
    /\ time < base
    /\ out = PastText(1, "week")

\* The exact elapsed seconds divided by a unit's length and truncated toward
\* zero, and the answer in the largest of week, day, hour, minute and second
\* whose count is not zero.
UnitCount(t, b, len) == TruncDiv(t - b, len)

SignedText(n, unit) ==
    IF n > 0 THEN FutureText(n, unit) ELSE PastText(-n, unit)

LargestUnitText(t, b) ==
    IF UnitCount(t, b, 604800) # 0
    THEN SignedText(UnitCount(t, b, 604800), "week")
    ELSE IF UnitCount(t, b, 86400) # 0
    THEN SignedText(UnitCount(t, b, 86400), "day")
    ELSE IF UnitCount(t, b, 3600) # 0
    THEN SignedText(UnitCount(t, b, 3600), "hour")
    ELSE IF UnitCount(t, b, 60) # 0
    THEN SignedText(UnitCount(t, b, 60), "minute")
    ELSE IF UnitCount(t, b, 1) # 0
    THEN SignedText(UnitCount(t, b, 1), "second")
    ELSE "now"

\* C12: whenever `time` and `base` are less than one whole calendar month
\* apart, the answer is in the largest of week, day, hour, minute and second
\* whose truncated count of elapsed seconds is not zero.
C12_TruncatedUnits ==
    (pc = "returned" /\ CalendarMonths(time, base) = 0) =>
        out = LargestUnitText(time, base)

\* The same answer for the instants that lie in one calendar year, where the
\* month difference of the formatter needs no multiple of twelve.
C12_WithinOneYear ==
    (pc = "returned" /\ CalendarMonths(time, base) = 0
        /\ Year(time) = Year(base)) =>
        out = LargestUnitText(time, base)

====
